---- MODULE Spec2Model ----
(***************************************************************************)
(* Model of the user authentication service                                *)
(* (0x03-user_authentication_service/auth.py, user.py).                    *)
(*                                                                         *)
(* The users table is a sequence of rows in insertion order.  A str token  *)
(* is encoded as an integer: None is -1, the empty string is 0 and the     *)
(* n-th value returned by uuid4() is n, and the n-th salt returned by       *)
(* bcrypt.gensalt() is n.  A password is the code of its utf-8 bytes,      *)
(* head * TailSpace + tail: head stands for its first 72 bytes and tail    *)
(* for the bytes after them (0 when there are none).  A User object        *)
(* returned by a method is represented by the id of its row.               *)
(***************************************************************************)
EXTENDS Integers, Sequences, FiniteSets, TLC

\* ---------------------------------------------------------------- bounds
MaxUuid == 3
MaxSalt == 3
MaxRows == 2
MaxRaceTokens == 1
Emails == {"a@x.com", "b@x.com"}

\* Passwords users set: 3 is 'a'*72 + '1', 4 is a short password with other
\* bytes.  Passwords offered at login: those and 2, which is 'a'*72 (the
\* first 72 bytes of password 3 without the byte after them).
TailSpace == 2
Passwords == {3, 4}
Guesses == Passwords \cup {2}

\* ---------------------------------------------------------- python values
None == -1
EmptyStr == 0
NoResult == 0

Tokens == {None, EmptyStr} \cup (1..MaxUuid)
ResetTokens == {None} \cup (1..MaxUuid)
UserIds == 1..(Cardinality(Emails) + 1)
Procs == {1, 2}

VARIABLES
    users,      \* rows of the users table (user.py), in insertion order
    uuids,      \* number of uuid4() values generated so far
    salts,      \* number of bcrypt.gensalt() values generated so far
    call,       \* the last Auth call: operation, arguments, outcome, store
                \* calls it made and the users table it started from
    pw,         \* history: per row, the plaintext most recently hashed into it
    sess,       \* history: per row, the token the last create_session returned
                \* for it, None once destroy_session ran for the row
    reset,      \* history: per row, the token the last successful
                \* get_reset_password_token returned for it, None once
                \* update_password succeeded for the row
    procs       \* calls in flight when the store calls of concurrent requests
                \* interleave (SpecRace); every call is idle under Spec

vars == <<users, uuids, salts, call, pw, sess, reset, procs>>

\* ------------------------------------------------------------ user.py
User(id, email, hashed_password) ==
    [id |-> id, email |-> email, hashed_password |-> hashed_password,
     session_id |-> None, reset_token |-> None]

\* ------------------------------------------------------------ bcrypt
\* bcrypt reads the first 72 bytes of a password and ignores the rest.
first72(passwd) == passwd \div TailSpace

\* bcrypt.hashpw(passwd, salt): the salt is embedded in the output, followed
\* by a digest of the salt and the first 72 bytes of passwd, injective in
\* those bytes for a fixed salt.
DigestSpace == Cardinality({first72(p) : p \in Guesses}) + 1

bcrypt_hashpw(passwd, salt) ==
    salt * DigestSpace + ((first72(passwd) + salt) % DigestSpace)

\* bcrypt.gensalt(): a random salt of 128 bits, whatever the users table
\* holds; the value drawn after n earlier ones is coded n + 1.
bcrypt_gensalt(n) == n + 1

\* bcrypt.checkpw(passwd, hashed): re-derive with the embedded salt, compare.
bcrypt_checkpw(passwd, hashed) ==
    bcrypt_hashpw(passwd, hashed \div DigestSpace) = hashed

\* ------------------------------------------------------------ store (db)
\* find_user_by(field=value): the row matching the predicate, NoResult
\* (NoResultFound) when none or more than one row matches.
find_user_by(us, field, value) ==
    LET m == {i \in 1..Len(us) : us[i][field] = value}
    IN  IF Cardinality(m) = 1 THEN CHOOSE i \in m : TRUE ELSE NoResult

add_user(us, email, hashed_password) ==
    Append(us, User(Len(us) + 1, email, hashed_password))

\* update_user(user_id, **fields) fails when no row has the id.
update_user_raises(us, user_id) ==
    IF \E i \in 1..Len(us) : us[i].id = user_id THEN "" ELSE "ValueError"

update_user(us, user_id, fields) ==
    [i \in 1..Len(us) |->
        IF us[i].id = user_id
        THEN [k \in DOMAIN us[i] |->
                IF k \in DOMAIN fields THEN fields[k] ELSE us[i][k]]
        ELSE us[i]]

\* ------------------------------------------------------------ auth.py
\* Mutant: the digest is derived with a constant salt.
hash_password_fixed_salt(password, salt) == bcrypt_hashpw(password, 1)

hash_password(password, salt) == bcrypt_hashpw(password, salt)

generate_uuid(n) == n + 1

Outcome(us, ret, raised, calls, usedUuid) ==
    [users |-> us, ret |-> ret, raised |-> raised, calls |-> calls,
     usedUuid |-> usedUuid, usedSalt |-> 0]

\* The outcome of a call that ran _hash_password, and so drew a salt.
Hashed(outcome) == [outcome EXCEPT !.usedSalt = 1]

\* Mutant: the existence check is dropped, every call inserts.
register_user_unchecked(us, email, password, salt) ==
    LET new == add_user(us, email, hash_password(password, salt))
    IN  Hashed(Outcome(new, new[Len(new)].id, "", <<"add_user">>, 0))

register_user(us, email, password, salt) ==
    IF find_user_by(us, "email", email) = NoResult
    THEN LET hashed == hash_password(password, salt)
             new == add_user(us, email, hashed)
         IN  Hashed(Outcome(new, new[Len(new)].id, "",
                            <<"find_user_by", "add_user">>, 0))
    ELSE Outcome(us, None, "ValueError", <<"find_user_by">>, 0)

\* register_user as the two store calls it makes, for requests whose store
\* calls interleave: the lookup of the try block ...
register_user_lookup(us, email) == find_user_by(us, "email", email)

\* Mutant: the insert is refused when a row has the email by then.
register_user_insert_unique(us, email, password, salt) ==
    IF \E i \in 1..Len(us) : us[i].email = email
    THEN Outcome(us, None, "ValueError", <<"add_user">>, 0)
    ELSE LET new == add_user(us, email, hash_password(password, salt))
         IN  Hashed(Outcome(new, new[Len(new)].id, "", <<"add_user">>, 0))

\* ... and the insert of the except block.
register_user_insert(us, email, password, salt) ==
    LET hashed == hash_password(password, salt)
        new == add_user(us, email, hashed)
    IN  Hashed(Outcome(new, new[Len(new)].id, "", <<"add_user">>, 0))

valid_login(us, email, password) ==
    LET user == find_user_by(us, "email", email)
    IN  IF user = NoResult
        THEN Outcome(us, FALSE, "", <<"find_user_by">>, 0)
        ELSE Outcome(us, bcrypt_checkpw(password, us[user].hashed_password),
                     "", <<"find_user_by">>, 0)

\* Mutant: the token is returned but never stored.
create_session_unsaved(us, email, uuid) ==
    IF find_user_by(us, "email", email) = NoResult
    THEN Outcome(us, None, "", <<"find_user_by">>, 0)
    ELSE Outcome(us, uuid, "", <<"find_user_by">>, 1)

\* Mutant: an unknown email raises, as get_reset_password_token does.
create_session_raises(us, email, uuid) ==
    LET user == find_user_by(us, "email", email)
    IN  IF user = NoResult
        THEN Outcome(us, None, "ValueError", <<"find_user_by">>, 0)
        ELSE Outcome(update_user(us, us[user].id, [session_id |-> uuid]),
                     uuid, "", <<"find_user_by", "update_user">>, 1)

\* Mutant: the update is not restricted to the user's row.
create_session_all_rows(us, email, uuid) ==
    LET user == find_user_by(us, "email", email)
    IN  IF user = NoResult
        THEN Outcome(us, None, "", <<"find_user_by">>, 0)
        ELSE Outcome([i \in 1..Len(us) |-> [us[i] EXCEPT !.session_id = uuid]],
                     uuid, "", <<"find_user_by", "update_user">>, 1)

\* Mutant: a session is stored only when the user has none.
create_session_keep_first(us, email, uuid) ==
    LET user == find_user_by(us, "email", email)
    IN  IF user = NoResult
        THEN Outcome(us, None, "", <<"find_user_by">>, 0)
        ELSE IF us[user].session_id # None
        THEN Outcome(us, uuid, "", <<"find_user_by">>, 1)
        ELSE Outcome(update_user(us, us[user].id, [session_id |-> uuid]),
                     uuid, "", <<"find_user_by", "update_user">>, 1)

create_session(us, email, uuid) ==
    LET user == find_user_by(us, "email", email)
    IN  IF user = NoResult
        THEN Outcome(us, None, "", <<"find_user_by">>, 0)
        ELSE Outcome(update_user(us, us[user].id, [session_id |-> uuid]),
                     uuid, update_user_raises(us, us[user].id),
                     <<"find_user_by", "update_user">>, 1)

\* Mutant: the None guard is dropped.
get_user_from_session_id_unguarded(us, session_id) ==
    LET user == find_user_by(us, "session_id", session_id)
    IN  IF user = NoResult
        THEN Outcome(us, None, "", <<"find_user_by">>, 0)
        ELSE Outcome(us, us[user].id, "", <<"find_user_by">>, 0)

get_user_from_session_id(us, session_id) ==
    IF session_id = None
    THEN Outcome(us, None, "", <<>>, 0)
    ELSE LET user == find_user_by(us, "session_id", session_id)
         IN  IF user = NoResult
             THEN Outcome(us, None, "", <<"find_user_by">>, 0)
             ELSE Outcome(us, us[user].id, "", <<"find_user_by">>, 0)

\* Mutant: the session is destroyed by writing the empty string.
destroy_session_empty(us, user_id) ==
    Outcome(update_user(us, user_id, [session_id |-> EmptyStr]), None, "",
            <<"update_user">>, 0)

\* Mutant: the store's ValueError is not caught.
destroy_session_uncaught(us, user_id) ==
    Outcome(update_user(us, user_id, [session_id |-> None]), None,
            update_user_raises(us, user_id), <<"update_user">>, 0)

\* Mutant: logging out clears the pending reset token too.
destroy_session_clears_reset(us, user_id) ==
    Outcome(update_user(us, user_id,
                        [session_id |-> None, reset_token |-> None]),
            None, "", <<"update_user">>, 0)

\* Mutant: the update is not restricted to the user's row.
destroy_session_all_rows(us, user_id) ==
    Outcome([i \in 1..Len(us) |-> [us[i] EXCEPT !.session_id = None]], None,
            "", <<"update_user">>, 0)

destroy_session(us, user_id) ==
    LET exc == update_user_raises(us, user_id)
    IN  Outcome(update_user(us, user_id, [session_id |-> None]), None,
                IF exc = "ValueError" THEN "" ELSE exc,
                <<"update_user">>, 0)

\* Mutant: the token is stored as the session id.
get_reset_password_token_as_session(us, email, uuid) ==
    LET user == find_user_by(us, "email", email)
    IN  IF user = NoResult
        THEN Outcome(us, None, "ValueError", <<"find_user_by">>, 0)
        ELSE Outcome(update_user(us, us[user].id, [session_id |-> uuid]),
                     uuid, "", <<"find_user_by", "update_user">>, 1)

\* Mutant: a pending reset token is not replaced.
get_reset_password_token_keep_first(us, email, uuid) ==
    LET user == find_user_by(us, "email", email)
    IN  IF user = NoResult
        THEN Outcome(us, None, "ValueError", <<"find_user_by">>, 0)
        ELSE IF us[user].reset_token # None
        THEN Outcome(us, uuid, "", <<"find_user_by">>, 1)
        ELSE Outcome(update_user(us, us[user].id, [reset_token |-> uuid]),
                     uuid, "", <<"find_user_by", "update_user">>, 1)

get_reset_password_token(us, email, uuid) ==
    LET user == find_user_by(us, "email", email)
    IN  IF user = NoResult
        THEN Outcome(us, None, "ValueError", <<"find_user_by">>, 0)
        ELSE Outcome(update_user(us, us[user].id, [reset_token |-> uuid]),
                     uuid, update_user_raises(us, us[user].id),
                     <<"find_user_by", "update_user">>, 1)

\* Mutant: the reset token is not cleared.
update_password_keep_token(us, reset_token, password, salt) ==
    LET user == find_user_by(us, "reset_token", reset_token)
    IN  IF user = NoResult
        THEN Outcome(us, None, "ValueError", <<"find_user_by">>, 0)
        ELSE Hashed(Outcome(update_user(us, us[user].id,
                        [hashed_password |-> hash_password(password, salt)]),
                     None, "", <<"find_user_by", "update_user">>, 0))

\* Mutant: changing the password ends the user's session too.
update_password_logout(us, reset_token, password, salt) ==
    LET user == find_user_by(us, "reset_token", reset_token)
    IN  IF user = NoResult
        THEN Outcome(us, None, "ValueError", <<"find_user_by">>, 0)
        ELSE Hashed(Outcome(update_user(us, us[user].id,
                        [hashed_password |-> hash_password(password, salt),
                         reset_token |-> None, session_id |-> None]),
                     None, "", <<"find_user_by", "update_user">>, 0))

update_password(us, reset_token, password, salt) ==
    LET user == find_user_by(us, "reset_token", reset_token)
    IN  IF user = NoResult
        THEN Outcome(us, None, "ValueError", <<"find_user_by">>, 0)
        ELSE LET hashed == hash_password(password, salt)
             IN  Hashed(Outcome(update_user(us, us[user].id,
                            [hashed_password |-> hashed, reset_token |-> None]),
                         None, update_user_raises(us, us[user].id),
                         <<"find_user_by", "update_user">>, 0))

\* update_password as the two store calls it makes: the lookup by
\* reset_token ...
update_password_lookup(us, reset_token) ==
    find_user_by(us, "reset_token", reset_token)

\* ... and the update of the row whose id the lookup returned.
update_password_write(us, user_id, password, salt) ==
    LET hashed == hash_password(password, salt)
    IN  Hashed(Outcome(update_user(us, user_id,
                    [hashed_password |-> hashed, reset_token |-> None]),
                None, update_user_raises(us, user_id), <<"update_user">>, 0))

\* get_reset_password_token as the two store calls it makes: the lookup by
\* email ...
get_reset_password_token_lookup(us, email) == find_user_by(us, "email", email)

\* ... and, a token drawn in between, the update of the row whose id the
\* lookup returned.
get_reset_password_token_update(us, user_id, uuid) ==
    Outcome(update_user(us, user_id, [reset_token |-> uuid]), uuid,
            update_user_raises(us, user_id), <<"update_user">>, 1)

\* ------------------------------------------------------------ state machine
\* A request thread with no Auth call in flight.
Idle ==
    [pc |-> "idle", op |-> "", email |-> "", password |-> None,
     token |-> None, found |-> NoResult, raised |-> "", ret |-> None]

Call(op, email, password, token, user_id, r) ==
    [op |-> op, email |-> email, password |-> password, token |-> token,
     user_id |-> user_id, ret |-> r.ret, raised |-> r.raised,
     calls |-> r.calls, before |-> users]

\* The store, the generators and the call record after an Auth call.
Commit(op, email, password, token, user_id, r) ==
    /\ uuids + r.usedUuid <= MaxUuid
    /\ salts + r.usedSalt <= MaxSalt
    /\ users' = r.users
    /\ uuids' = uuids + r.usedUuid
    /\ salts' = salts + r.usedSalt
    /\ call' = Call(op, email, password, token, user_id, r)
    /\ UNCHANGED procs

Init ==
    /\ users = <<>>
    /\ uuids = 0
    /\ salts = 0
    /\ call = [op |-> "init", email |-> "", password |-> None, token |-> None,
               user_id |-> None, ret |-> None, raised |-> "", calls |-> <<>>,
               before |-> <<>>]
    /\ pw = <<>>
    /\ sess = <<>>
    /\ reset = <<>>
    /\ procs = [p \in Procs |-> Idle]

RegisterUser(email, password) ==
    LET r == register_user(users, email, password, bcrypt_gensalt(salts))
    IN  /\ Commit("register_user", email, password, None, None, r)
        /\ pw' = IF r.raised = "" THEN Append(pw, password) ELSE pw
        /\ sess' = IF r.raised = "" THEN Append(sess, None) ELSE sess
        /\ reset' = IF r.raised = "" THEN Append(reset, None) ELSE reset

ValidLogin(email, password) ==
    LET r == valid_login(users, email, password)
    IN  /\ Commit("valid_login", email, password, None, None, r)
        /\ UNCHANGED <<pw, sess, reset>>

CreateSession(email) ==
    LET r == create_session(users, email, generate_uuid(uuids))
    IN  /\ Commit("create_session", email, None, None, None, r)
        /\ sess' = [i \in 1..Len(sess) |->
                      IF users[i].email = email /\ r.ret # None
                      THEN r.ret ELSE sess[i]]
        /\ UNCHANGED <<pw, reset>>

GetUserFromSessionId(session_id) ==
    LET r == get_user_from_session_id(users, session_id)
    IN  /\ Commit("get_user_from_session_id", "", None, session_id, None, r)
        /\ UNCHANGED <<pw, sess, reset>>

DestroySession(user_id) ==
    LET r == destroy_session(users, user_id)
    IN  /\ Commit("destroy_session", "", None, None, user_id, r)
        /\ sess' = [i \in 1..Len(sess) |->
                      IF users[i].id = user_id THEN None ELSE sess[i]]
        /\ UNCHANGED <<pw, reset>>

GetResetPasswordToken(email) ==
    LET r == get_reset_password_token(users, email, generate_uuid(uuids))
    IN  /\ Commit("get_reset_password_token", email, None, None, None, r)
        /\ reset' = [i \in 1..Len(reset) |->
                       IF users[i].email = email /\ r.raised = ""
                       THEN r.ret ELSE reset[i]]
        /\ UNCHANGED <<pw, sess>>

UpdatePassword(reset_token, password) ==
    LET r == update_password(users, reset_token, password,
                             bcrypt_gensalt(salts))
        row == find_user_by(users, "reset_token", reset_token)
    IN  /\ Commit("update_password", "", password, reset_token, None, r)
        /\ pw' = IF r.raised = "" THEN [pw EXCEPT ![row] = password] ELSE pw
        /\ reset' = IF r.raised = "" THEN [reset EXCEPT ![row] = None]
                     ELSE reset
        /\ UNCHANGED sess

Next ==
    \/ \E email \in Emails, password \in Passwords :
          RegisterUser(email, password)
    \/ \E email \in Emails, password \in Guesses :
          ValidLogin(email, password)
    \/ \E email \in Emails : CreateSession(email)
    \/ \E session_id \in Tokens : GetUserFromSessionId(session_id)
    \/ \E user_id \in UserIds : DestroySession(user_id)
    \/ \E email \in Emails : GetResetPasswordToken(email)
    \/ \E reset_token \in ResetTokens, password \in Passwords :
          UpdatePassword(reset_token, password)

Spec == Init /\ [][Next]_vars

\* ------------------------------------------------------- interleaved calls
\* Two request threads call register_user, get_reset_password_token and
\* update_password; each store call is one atomic step and the steps of the
\* two calls interleave.  The record of a call is kept in procs until the
\* thread returns.  At most MaxRows rows are inserted and MaxRaceTokens reset
\* tokens issued.
StartRegister(p, email, password) ==
    /\ procs[p].pc = "idle"
    /\ Len(users) + Cardinality({q \in Procs :
            procs[q].op = "register_user" /\ procs[q].pc # "done"}) < MaxRows
    /\ procs' = [procs EXCEPT ![p] = [Idle EXCEPT !.pc = "lookup",
                    !.op = "register_user", !.email = email,
                    !.password = password]]
    /\ UNCHANGED <<users, uuids, salts, call, pw, sess, reset>>

RegisterLookup(p) ==
    /\ procs[p].pc = "lookup"
    /\ procs[p].op = "register_user"
    /\ LET user == register_user_lookup(users, procs[p].email)
       IN  procs' = [procs EXCEPT ![p] =
                IF user = NoResult
                THEN [@ EXCEPT !.pc = "insert"]
                ELSE [@ EXCEPT !.pc = "done", !.found = users[user].id,
                               !.raised = "ValueError"]]
    /\ UNCHANGED <<users, uuids, salts, call, pw, sess, reset>>

RegisterInsert(p) ==
    /\ procs[p].pc = "insert"
    /\ LET r == register_user_insert(users, procs[p].email, procs[p].password,
                                     bcrypt_gensalt(salts))
       IN  /\ salts + r.usedSalt <= MaxSalt
           /\ users' = r.users
           /\ salts' = salts + r.usedSalt
           /\ procs' = [procs EXCEPT ![p].pc = "done", ![p].raised = r.raised,
                                     ![p].ret = r.ret]
           /\ pw' = IF r.raised = "" THEN Append(pw, procs[p].password) ELSE pw
           /\ sess' = IF r.raised = "" THEN Append(sess, None) ELSE sess
           /\ reset' = IF r.raised = "" THEN Append(reset, None) ELSE reset
    /\ UNCHANGED <<uuids, call>>

StartReset(p, email) ==
    /\ procs[p].pc = "idle"
    /\ uuids + Cardinality({q \in Procs :
            procs[q].op = "get_reset_password_token" /\ procs[q].pc # "done"})
          < MaxRaceTokens
    /\ procs' = [procs EXCEPT ![p] = [Idle EXCEPT !.pc = "lookup",
                    !.op = "get_reset_password_token", !.email = email]]
    /\ UNCHANGED <<users, uuids, salts, call, pw, sess, reset>>

ResetLookup(p) ==
    /\ procs[p].pc = "lookup"
    /\ procs[p].op = "get_reset_password_token"
    /\ LET user == get_reset_password_token_lookup(users, procs[p].email)
       IN  procs' = [procs EXCEPT ![p] =
                IF user = NoResult
                THEN [@ EXCEPT !.pc = "done", !.raised = "ValueError"]
                ELSE [@ EXCEPT !.pc = "update", !.found = users[user].id]]
    /\ UNCHANGED <<users, uuids, salts, call, pw, sess, reset>>

ResetUpdate(p) ==
    /\ procs[p].pc = "update"
    /\ LET r == get_reset_password_token_update(users, procs[p].found,
                                                generate_uuid(uuids))
       IN  /\ users' = r.users
           /\ uuids' = uuids + r.usedUuid
           /\ procs' = [procs EXCEPT ![p].pc = "done", ![p].raised = r.raised,
                                     ![p].ret = r.ret]
           /\ reset' = [i \in 1..Len(reset) |->
                          IF users[i].id = procs[p].found /\ r.raised = ""
                          THEN r.ret ELSE reset[i]]
    /\ UNCHANGED <<salts, call, pw, sess>>

StartUpdate(p, reset_token, password) ==
    /\ procs[p].pc = "idle"
    /\ procs' = [procs EXCEPT ![p] = [Idle EXCEPT !.pc = "lookup",
                    !.op = "update_password", !.token = reset_token,
                    !.password = password]]
    /\ UNCHANGED <<users, uuids, salts, call, pw, sess, reset>>

UpdateLookup(p) ==
    /\ procs[p].pc = "lookup"
    /\ procs[p].op = "update_password"
    /\ LET user == update_password_lookup(users, procs[p].token)
       IN  procs' = [procs EXCEPT ![p] =
                IF user = NoResult
                THEN [@ EXCEPT !.pc = "done", !.raised = "ValueError"]
                ELSE [@ EXCEPT !.pc = "write", !.found = users[user].id]]
    /\ UNCHANGED <<users, uuids, salts, call, pw, sess, reset>>

UpdateWrite(p) ==
    /\ procs[p].pc = "write"
    /\ LET r == update_password_write(users, procs[p].found, procs[p].password,
                                      bcrypt_gensalt(salts))
       IN  /\ salts + r.usedSalt <= MaxSalt
           /\ users' = r.users
           /\ salts' = salts + r.usedSalt
           /\ procs' = [procs EXCEPT ![p].pc = "done", ![p].raised = r.raised]
           /\ pw' = [i \in 1..Len(pw) |->
                       IF users[i].id = procs[p].found /\ r.raised = ""
                       THEN procs[p].password ELSE pw[i]]
           /\ reset' = [i \in 1..Len(reset) |->
                          IF users[i].id = procs[p].found /\ r.raised = ""
                          THEN None ELSE reset[i]]
    /\ UNCHANGED <<uuids, call, sess>>

Return(p) ==
    /\ procs[p].pc = "done"
    /\ procs' = [procs EXCEPT ![p] = Idle]
    /\ UNCHANGED <<users, uuids, salts, call, pw, sess, reset>>

NextRace ==
    \/ \E p \in Procs, email \in Emails, password \in Passwords :
          StartRegister(p, email, password)
    \/ \E p \in Procs : RegisterLookup(p)
    \/ \E p \in Procs : RegisterInsert(p)
    \/ \E p \in Procs, email \in Emails : StartReset(p, email)
    \/ \E p \in Procs : ResetLookup(p)
    \/ \E p \in Procs : ResetUpdate(p)
    \/ \E p \in Procs, reset_token \in 1..uuids, password \in Passwords :
          StartUpdate(p, reset_token, password)
    \/ \E p \in Procs : UpdateLookup(p)
    \/ \E p \in Procs : UpdateWrite(p)
    \/ \E p \in Procs : Return(p)

SpecRace == Init /\ [][NextRace]_vars

\* ------------------------------------------------------------ properties
Rows(us) == 1..Len(us)

HasEmail(us, email) == \E i \in Rows(us) : us[i].email = email

HasId(us, user_id) == \E i \in Rows(us) : us[i].id = user_id

\* The row of `us` with the email (emails are unique in the states used).
RowOfEmail(us, email) == CHOOSE i \in Rows(us) : us[i].email = email

\* C1: register_user for an email that already has a user raises ValueError
\* and leaves the users table as it was; for an email with no user it raises
\* nothing, adds exactly one row (the earlier rows unchanged) carrying the
\* email, a new id and a digest of the password, and returns that row.
C1_Register ==
    call.op = "register_user" =>
        IF HasEmail(call.before, call.email)
        THEN call.raised = "ValueError" /\ users = call.before
        ELSE /\ call.raised = ""
             /\ Len(users) = Len(call.before) + 1
             /\ SubSeq(users, 1, Len(call.before)) = call.before
             /\ users[Len(users)].email = call.email
             /\ ~HasId(call.before, users[Len(users)].id)
             /\ bcrypt_checkpw(call.password, users[Len(users)].hashed_password)
             /\ call.ret = users[Len(users)].id

\* C1 witness: a second registration of a registered email, with another
\* password, has been rejected.
C1_Witness ==
    /\ call.op = "register_user"
    /\ call.raised = "ValueError"
    /\ \E i \in Rows(users) :
          users[i].email = call.email /\ pw[i] # call.password

\* C2: valid_login never raises and changes no row, and returns True exactly
\* when a user has the email and the password is the one most recently set
\* for that user (by register_user or by the last successful update_password).
C2_ValidLogin ==
    call.op = "valid_login" =>
        /\ call.raised = ""
        /\ users = call.before
        /\ call.ret = (\E i \in Rows(users) :
                          users[i].email = call.email /\ pw[i] = call.password)

\* C3: the token create_session returned for a user resolves to that user
\* through get_user_from_session_id in every state until destroy_session runs
\* for the user or a later create_session replaces the token.
C3_SessionResolves ==
    \A i \in Rows(users) :
        sess[i] # None =>
            LET r == get_user_from_session_id(users, sess[i])
            IN  r.raised = "" /\ r.ret = users[i].id

\* C3 witness: get_user_from_session_id returned the user of a token issued
\* to it, while another user holds a session too.
C3_Witness ==
    /\ call.op = "get_user_from_session_id"
    /\ \E i, j \in Rows(users) :
          /\ i # j
          /\ sess[i] = call.token
          /\ call.ret = users[i].id
          /\ sess[j] # None

\* No user is returned for the token.
Dead(us, token) == get_user_from_session_id(us, token).ret = None

\* C4: after destroy_session for an existing user the user's session_id is
\* None and the token the user held resolves to no user; and a generated
\* token that resolves to no user never resolves to one in a later state.
C4_DestroyedStaysDead ==
    /\ [](call.op = "destroy_session" /\ HasId(call.before, call.user_id) =>
            \A i \in Rows(users) :
                users[i].id = call.user_id =>
                    /\ users[i].session_id = None
                    /\ Dead(users, call.before[i].session_id))
    /\ [][users' # users =>
            \A t \in 1..uuids : Dead(users, t) => Dead(users', t)]_vars

\* C4 witness: destroy_session has just cleared the session a user held,
\* while another token has been generated since that session began.
C4_Witness ==
    /\ call.op = "destroy_session"
    /\ \E i \in Rows(users) :
          /\ users[i].id = call.user_id
          /\ call.before[i].session_id \in 1..(uuids - 1)
          /\ users[i].session_id = None

\* C5: destroy_session raises nothing and returns None for every user_id;
\* for a user_id no row has, no row changes; and a second call with the same
\* user_id raises nothing and changes nothing more.
C5_DestroyNeverFails ==
    call.op = "destroy_session" =>
        /\ call.raised = ""
        /\ call.ret = None
        /\ ~HasId(call.before, call.user_id) => users = call.before
        /\ destroy_session(users, call.user_id).raised = ""
        /\ destroy_session(users, call.user_id).users = users

\* C5 witness: destroy_session was called with an id no row has, while a user
\* holds a session.
C5_Witness ==
    /\ call.op = "destroy_session"
    /\ ~HasId(users, call.user_id)
    /\ \E i \in Rows(users) : users[i].session_id # None

\* C6 as stated: for None and for the empty string alike the call returns
\* None without a store lookup; it never raises and returns None or a user.
C6_EmptyOrAbsentNoLookup ==
    call.op = "get_user_from_session_id" =>
        /\ call.raised = ""
        /\ call.ret = None \/ HasId(users, call.ret)
        /\ call.token \in {None, EmptyStr} =>
              call.ret = None /\ call.calls = <<>>

\* C6 amended: for None the call returns None without a store lookup; for the
\* empty string it looks the string up by session_id and returns None, no row
\* holding it; for every token it raises nothing, changes no row and returns
\* None or a user.
C6_AbsentNoLookup ==
    call.op = "get_user_from_session_id" =>
        /\ call.raised = ""
        /\ users = call.before
        /\ call.ret = None \/ HasId(users, call.ret)
        /\ call.token = None => call.ret = None /\ call.calls = <<>>
        /\ call.token = EmptyStr =>
              call.ret = None /\ call.calls = <<"find_user_by">>

\* C6 witness: the call was made with the empty string while a user holds a
\* session.
C6_Witness ==
    /\ call.op = "get_user_from_session_id"
    /\ call.token = EmptyStr
    /\ \E i \in Rows(users) : users[i].session_id # None

\* update_password with the token raises ValueError and changes no row,
\* whatever the password (no salt is drawn for a call that raises).
Rejected(us, token) ==
    \A q \in Passwords :
        LET r == update_password(us, token, q, MaxSalt)
        IN  r.raised = "ValueError" /\ r.users = us /\ r.usedSalt = 0

\* C7: once update_password has succeeded with a generated token, the row it
\* matched has reset_token None and update_password with that token raises
\* ValueError and changes nothing; and a generated token that update_password
\* rejects is rejected in every later state.
C7_ResetTokenSingleUse ==
    /\ [](call.op = "update_password" /\ call.raised = ""
            /\ call.token \in 1..MaxUuid =>
            /\ \A i \in Rows(users) :
                  call.before[i].reset_token = call.token =>
                      users[i].reset_token = None
            /\ Rejected(users, call.token))
    /\ [][users' # users =>
            \A t \in 1..uuids : Rejected(users, t) => Rejected(users', t)]_vars

\* C7 witness: update_password has just succeeded with a generated token and
\* changed the password of the row that held it.
C7_Witness ==
    /\ call.op = "update_password"
    /\ call.raised = ""
    /\ \E i \in Rows(users) :
          /\ call.before[i].reset_token = call.token
          /\ call.token \in 1..uuids
          /\ users[i].hashed_password # call.before[i].hashed_password

\* Some row's reset_token is non-null and equal to the token.
Pending(us, token) ==
    token # None /\ \E i \in Rows(us) : us[i].reset_token = token

\* C8: update_password with a token that is pending for no user (None
\* included) raises ValueError and changes no row.
C8_OnlyPendingTokenResets ==
    call.op = "update_password" /\ ~Pending(call.before, call.token) =>
        call.raised = "ValueError" /\ users = call.before

\* C9: get_reset_password_token for an email with no user raises ValueError
\* and changes no row; for an existing user it raises nothing, returns a
\* token that no row held before, and the users table differs from the one
\* before in that user's reset_token alone, which is the returned token.
C9_ResetRequest ==
    call.op = "get_reset_password_token" =>
        IF ~HasEmail(call.before, call.email)
        THEN call.raised = "ValueError" /\ users = call.before
        ELSE LET i == RowOfEmail(call.before, call.email)
             IN  /\ call.raised = ""
                 /\ call.ret \in 1..MaxUuid
                 /\ \A j \in Rows(call.before) :
                       /\ call.before[j].reset_token # call.ret
                       /\ call.before[j].session_id # call.ret
                 /\ users = [call.before EXCEPT ![i].reset_token = call.ret]

\* C9 witness: a reset token was issued to a user who holds a session and an
\* earlier reset token, while another user is registered.
C9_Witness ==
    /\ call.op = "get_reset_password_token"
    /\ call.raised = ""
    /\ \E i, j \in Rows(users) :
          /\ i # j
          /\ users[i].email = call.email
          /\ users[i].session_id # None
          /\ call.before[i].reset_token # None

\* C10: create_session for an email with no user returns None, raises
\* nothing and changes no row.
C10_NoSessionForUnknown ==
    call.op = "create_session" /\ ~HasEmail(call.before, call.email) =>
        call.ret = None /\ call.raised = "" /\ users = call.before

\* C10 witness: create_session was called for an email with no user while
\* another user is registered.
C10_Witness ==
    /\ call.op = "create_session"
    /\ ~HasEmail(users, call.email)
    /\ Len(users) >= 1

\* C11: no two distinct rows hold the same non-null session_id, and no two
\* distinct rows hold the same non-null reset_token (uuid4 values are fresh).
C11_TokensUnique ==
    \A i, j \in Rows(users) :
        i # j =>
            /\ users[i].session_id # None =>
                  users[i].session_id # users[j].session_id
            /\ users[i].reset_token # None =>
                  users[i].reset_token # users[j].reset_token

\* C11 witness: two users hold reset tokens and one of them a session.
C11_Witness ==
    \E i, j \in Rows(users) :
        /\ i # j
        /\ users[i].reset_token # None
        /\ users[j].reset_token # None
        /\ users[i].session_id # None

\* C12: a row's reset_token is non-null exactly when get_reset_password_token
\* has succeeded for it and update_password has not succeeded for it since; a
\* row register_user has just added has null reset_token and session_id; and
\* valid_login, create_session and destroy_session leave every reset_token
\* as it was.
C12_ResetPendingExactly ==
    /\ \A i \in Rows(users) :
          /\ (users[i].reset_token # None) <=> (reset[i] # None)
          /\ reset[i] # None => users[i].reset_token = reset[i]
    /\ call.op = "register_user" /\ call.raised = "" =>
          /\ users[Len(users)].reset_token = None
          /\ users[Len(users)].session_id = None
    /\ call.op \in {"valid_login", "create_session", "destroy_session"} =>
          /\ Len(users) = Len(call.before)
          /\ \A i \in Rows(users) :
                users[i].reset_token = call.before[i].reset_token

\* C12 witness: the second user, with a reset pending, has just logged in,
\* after update_password changed the first user's password (the first row's
\* digest no longer embeds salt 1) and left it with no reset pending.
C12_Witness ==
    /\ call.op = "create_session"
    /\ call.ret # None
    /\ Len(users) = 2
    /\ users[2].email = call.email
    /\ users[2].reset_token # None
    /\ users[1].reset_token = None
    /\ users[1].hashed_password \div DigestSpace # 1

\* C13: every stored digest differs from the plaintext it was derived from
\* and verifies against it; hashing any password with any salt gives a value
\* that differs from the password and verifies against it; the digests of
\* two rows differ, equal passwords included; and update_password stores a
\* digest that differs from the one it replaces.
C13_DigestNeverPlaintext ==
    /\ \A p \in Guesses, salt \in 1..MaxSalt :
          /\ hash_password(p, salt) # p
          /\ bcrypt_checkpw(p, hash_password(p, salt))
    /\ \A i \in Rows(users) :
          /\ users[i].hashed_password # pw[i]
          /\ bcrypt_checkpw(pw[i], users[i].hashed_password)
    /\ \A i, j \in Rows(users) :
          i # j => users[i].hashed_password # users[j].hashed_password
    /\ call.op = "update_password" /\ call.raised = "" =>
          \A i \in Rows(users) :
              call.before[i].reset_token = call.token =>
                  users[i].hashed_password # call.before[i].hashed_password

\* C13 witness: two users registered the same password, and one of them has
\* just reset the password to the same one.
C13_Witness ==
    /\ call.op = "update_password"
    /\ call.raised = ""
    /\ call.token \in 1..MaxUuid
    /\ \E i, j \in Rows(users) :
          /\ i # j
          /\ call.before[i].reset_token = call.token
          /\ bcrypt_checkpw(call.password, call.before[i].hashed_password)
          /\ pw[j] = call.password

\* C14: with Auth calls running one at a time, no two rows share an email or
\* an id, and a call removes no row and changes no row's id or email.
C14_EmailsUniqueRowsStable ==
    /\ \A i, j \in Rows(users) :
          i # j => users[i].email # users[j].email /\ users[i].id # users[j].id
    /\ Len(users) >= Len(call.before)
    /\ \A i \in Rows(call.before) :
          /\ users[i].id = call.before[i].id
          /\ users[i].email = call.before[i].email

\* C14 witness: with two users registered, a registration of a taken email
\* with the password of its user has been rejected.
C14_Witness ==
    /\ Len(users) = 2
    /\ call.op = "register_user"
    /\ call.raised = "ValueError"
    /\ \E i \in Rows(users) :
          users[i].email = call.email /\ pw[i] = call.password

\* The user get_user_from_session_id returns for the token is the one of id.
Resolves(us, token, id) == get_user_from_session_id(us, token).ret = id

\* C17: at most one token resolves to a user at a time; after a create_session
\* for a user the returned token resolves to the user and the token the user
\* held before, if any, resolves to no user.
C17_OneSessionPerUser ==
    /\ \A i \in Rows(users) :
          Cardinality({t \in Tokens : Resolves(users, t, users[i].id)}) <= 1
    /\ call.op = "create_session" /\ call.ret # None =>
          \A i \in Rows(users) :
              users[i].email = call.email =>
                  /\ Resolves(users, call.ret, users[i].id)
                  /\ call.before[i].session_id # None =>
                        Dead(users, call.before[i].session_id)

\* C17 witness: create_session has just replaced the session a user held.
C17_Witness ==
    /\ call.op = "create_session"
    /\ \E i \in Rows(users) :
          /\ users[i].email = call.email
          /\ call.before[i].session_id # None
          /\ users[i].session_id = call.ret

\* C18: after a get_reset_password_token for a user with a reset pending,
\* update_password with the earlier token raises ValueError and changes
\* nothing; and while a user has a reset pending, update_password changes
\* that user's row exactly when it is given the token issued last.
C18_ResetSuperseded ==
    /\ call.op = "get_reset_password_token" /\ call.raised = "" =>
          \A i \in Rows(users) :
              users[i].email = call.email /\ call.before[i].reset_token # None
                  => Rejected(users, call.before[i].reset_token)
    /\ \A i \in Rows(users) :
          reset[i] # None =>
              \A t \in Tokens, q \in Passwords :
                  LET r == update_password(users, t, q, bcrypt_gensalt(salts))
                  IN  (r.users[i] # users[i]) <=> (t = reset[i])

\* C18 witness: a second reset token was issued to a user whose first one was
\* still pending, while another user has a reset pending too.
C18_Witness ==
    /\ call.op = "get_reset_password_token"
    /\ call.raised = ""
    /\ \E i, j \in Rows(users) :
          /\ i # j
          /\ users[i].email = call.email
          /\ call.before[i].reset_token # None
          /\ users[j].reset_token # None

\* C19: a successful update_password leaves the number of rows and every row
\* but the matched one unchanged; the matched row keeps its id, email and
\* session_id, gets reset_token None and a digest of the new password, and
\* the session token it held still resolves to its user.
C19_ResetFrame ==
    call.op = "update_password" /\ call.raised = "" =>
        /\ Len(users) = Len(call.before)
        /\ \A i \in Rows(users) :
              IF call.before[i].reset_token = call.token
              THEN /\ users[i].id = call.before[i].id
                   /\ users[i].email = call.before[i].email
                   /\ users[i].session_id = call.before[i].session_id
                   /\ users[i].reset_token = None
                   /\ bcrypt_checkpw(call.password, users[i].hashed_password)
                   /\ users[i].session_id # None =>
                         Resolves(users, users[i].session_id, users[i].id)
              ELSE users[i] = call.before[i]

\* C19 witness: update_password succeeded with the pending token of a user
\* who holds a session, while another user has a reset pending.
C19_Witness ==
    /\ call.op = "update_password"
    /\ call.raised = ""
    /\ \E i, j \in Rows(users) :
          /\ i # j
          /\ call.token \in 1..MaxUuid
          /\ call.before[i].reset_token = call.token
          /\ users[i].session_id # None
          /\ users[j].reset_token # None

\* C20: destroy_session for an existing user changes that user's session_id
\* to None and nothing else: the row's other fields, the other rows and the
\* number of rows are unchanged, and every other user's session token still
\* resolves to that user.
C20_DestroyFrame ==
    call.op = "destroy_session" /\ HasId(call.before, call.user_id) =>
        /\ Len(users) = Len(call.before)
        /\ \A i \in Rows(users) :
              IF call.before[i].id = call.user_id
              THEN users[i] = [call.before[i] EXCEPT !.session_id = None]
              ELSE /\ users[i] = call.before[i]
                   /\ users[i].session_id # None =>
                         Resolves(users, users[i].session_id, users[i].id)

\* C20 witness: destroy_session ended the session of a user with a reset
\* pending, while another user holds a session.
C20_Witness ==
    /\ call.op = "destroy_session"
    /\ \E i, j \in Rows(users) :
          /\ i # j
          /\ users[i].id = call.user_id
          /\ call.before[i].session_id # None
          /\ users[i].reset_token # None
          /\ users[j].session_id # None

\* C15: with the lookup and the insert of register_user as separate steps,
\* the lookup alone decides the outcome of a call: a call whose lookup found
\* a user raised ValueError and inserted nothing, and a call whose lookup
\* found none inserted a row with its email and raised nothing, whatever the
\* other call inserted in between.
C15_LookupAloneDecides ==
    \A p \in Procs :
        procs[p].op = "register_user" /\ procs[p].pc = "done" =>
            IF procs[p].found # NoResult
            THEN procs[p].raised = "ValueError" /\ procs[p].ret = None
            ELSE /\ procs[p].raised = ""
                 /\ \E i \in Rows(users) :
                       /\ users[i].id = procs[p].ret
                       /\ users[i].email = procs[p].email

\* C15 witness: two rows share an email, and both register_user calls for the
\* email have returned without raising.
C15_Witness ==
    /\ \E i, j \in Rows(users) :
          /\ i # j
          /\ users[i].email = users[j].email
          /\ \A p \in Procs : procs[p].email = users[i].email
    /\ \A p \in Procs :
          /\ procs[p].op = "register_user"
          /\ procs[p].pc = "done"
          /\ procs[p].raised = ""

\* C16: of two update_password calls made with the same generated token, the
\* store calls of which interleave, at most one returns without raising.
C16_AtMostOneResetPerToken ==
    \A p, q \in Procs :
        /\ p # q
        /\ procs[p].op = "update_password" /\ procs[p].pc = "done"
        /\ procs[q].op = "update_password" /\ procs[q].pc = "done"
        /\ procs[p].token = procs[q].token
        /\ procs[p].token \in 1..MaxUuid
        => ~(procs[p].raised = "" /\ procs[q].raised = "")

====
